---------------------------- MODULE Spec2Model ----------------------------
(***************************************************************************)
(* Tile materialisation and cache-aside pipeline of catmaid/tileserver.    *)
(*                                                                         *)
(*   src/tensorstore_server.py  the Tile Materializer: get_2d_tile,        *)
(*                              make_my_tile, make_tile (+ prefetch)       *)
(*   src/tile_server.py         the Tile Edge: get_tile                    *)
(*                                                                         *)
(* The Byte Cache (redis) is the only shared mutable state.  Every request *)
(* handler is a sequential process; handlers of different requests (other  *)
(* uvicorn workers, or other event-loop tasks suspended at the volume      *)
(* read) interleave between their cache operations.  A make_my_tile call   *)
(* therefore takes two steps: the existence check together with the        *)
(* synchronous part of get_2d_tile up to the awaited read (MMTCheck), and  *)
(* the encoding together with the cache write (MMTStore).                  *)
(*                                                                         *)
(* The requests of one behaviour address one tile stack (zoom, row, col)   *)
(* and differ in z: prefetch varies z only, and calls on different stacks  *)
(* share no cache key.                                                     *)
(***************************************************************************)
EXTENDS Integers, Sequences, FiniteSets, TLC

VARIABLES
    prefetchZ,  \* settings.PREFETCH_ADJACENT_Z
    stack,      \* <<zoom, row, col>> addressed by the requests
    cache,      \* the Byte Cache r: key -> bytes, for the keys present
    epc,        \* position of each Edge get_tile handler
    reqz,       \* z of each request
    eresp,      \* response of get_tile to the client
    mresp,      \* response of make_tile to the Edge
    cur,        \* the make_my_tile call each Materializer handler is in
    queue,      \* background_tasks of each handler still to run
    bgstate,    \* state of each handler's background task run
    sched,      \* history: the tasks make_tile added
    outc,       \* history: outcome of every make_my_tile call, per handler
    reads,      \* history: Volume Access reads issued, per z
    writes      \* history: cache writes issued, per z

vars == <<prefetchZ, stack, cache, epc, reqz, eresp, mresp, cur, queue,
          bgstate, sched, outc, reads, writes>>

----------------------------------------------------------------------------
(* Bounds *)

MaxPrefetch == 2      \* PREFETCH_ADJACENT_Z is drawn from 0..MaxPrefetch
MaxIdx == 2           \* requested row and col are drawn from 0..MaxIdx
MaxZ == 2             \* requested z is drawn from 0..MaxZ
NumRequests == 2      \* requests in one behaviour
MaxCalls == 10        \* make_my_tile calls in one behaviour

Requests == 1..NumRequests

(* settings.TILE_SIZE, the default of tile_size; scaled down with the volume *)
TileSize == 2

----------------------------------------------------------------------------
(* The volume: AsyncTensorStoreServer.__init__ *)

\* settings.TENSORSTORE_SCALE_INDEX
ScaleIndex == {0, 1}

\* a zoom level no volume was opened for: self.shapes[zoom] raises KeyError
UnconfiguredZoom ==
    CHOOSE zm \in 0..Cardinality(ScaleIndex) : zm \notin ScaleIndex

\* self.shapes[zoom] = self.dataset_3d[zoom].shape, as <<x, y, z>>
Shapes(zoom) == IF zoom = 0 THEN <<3, 3, 2>> ELSE <<2, 2, 1>>

\* self.dtypes[zoom] = self.dataset_3d[zoom].dtype
Dtypes(zoom) == IF zoom = 0 THEN "uint8" ELSE "float32"

\* self.dataset_3d[zoom][x, y, z]: the voxel values, fixed once opened
Volume(zoom, x, y, z) == (1 + x + 3 * y + 9 * z + 27 * zoom) % 256

Min(a, b) == IF a < b THEN a ELSE b

----------------------------------------------------------------------------
(* get_2d_tile *)

NoPixels == <<>>

TileOf(dtype, px, isRead) ==
    [kind |-> "tile", exc |-> "", what |-> "", req |-> 0, lim |-> 0,
     dtype |-> dtype, px |-> px, volread |-> isRead]

Raise(exc, what, req, lim) ==
    [kind |-> "error", exc |-> exc, what |-> what, req |-> req, lim |-> lim,
     dtype |-> "", px |-> NoPixels, volread |-> FALSE]

\* np.zeros((tile_size, tile_size), dtype=np.uint8)
Zeros == [r \in 1..TileSize |-> [c \in 1..TileSize |-> 0]]

\* the array as read, indexed [x][y]: "return tile" for "return tile.T"
ReadNotTransposed(zoom, start_x, end_x, start_y, end_y, z) ==
    [r \in 1..(end_x - start_x) |->
        [c \in 1..(end_y - start_y) |->
            Volume(zoom, start_x + r - 1, start_y + c - 1, z)]]

\* dataset_3d[zoom][start_x:end_x, start_y:end_y, z].read() transposed:
\* the array read is indexed [x, y]; tile.T is indexed [row = y][col = x]
ReadT(zoom, start_x, end_x, start_y, end_y, z) ==
    [r \in 1..(end_y - start_y) |->
        [c \in 1..(end_x - start_x) |->
            Volume(zoom, start_x + c - 1, start_y + r - 1, z)]]

\* get_2d_tile with "and" for "or" in the test of line 68
Get2dTileBothOutside(col, row, z, zoom) ==
    LET start_x == col * TileSize
        start_y == row * TileSize
    IN  IF zoom \notin ScaleIndex
        THEN Raise("KeyError", "zoom", zoom, 0)
        ELSE
        LET shape == Shapes(zoom)
            end_x == Min(start_x + TileSize, shape[1])
            end_y == Min(start_y + TileSize, shape[2])
        IN  IF start_x > shape[1] /\ start_y > shape[2]
            THEN TileOf("uint8", Zeros, FALSE)
            ELSE IF z < 0 \/ z >= shape[3]
            THEN Raise("ValueError", "z", z, shape[3])
            ELSE IF start_x >= shape[1]
            THEN Raise("ValueError", "x", start_x, shape[1])
            ELSE IF start_y >= shape[2]
            THEN Raise("ValueError", "y", start_y, shape[2])
            ELSE TileOf(Dtypes(zoom),
                        ReadT(zoom, start_x, end_x, start_y, end_y, z), TRUE)

\* get_2d_tile with "z > shape[2]" for "z >= shape[2]" in the test of line 79
Get2dTileZOffByOne(col, row, z, zoom) ==
    LET start_x == col * TileSize
        start_y == row * TileSize
    IN  IF zoom \notin ScaleIndex
        THEN Raise("KeyError", "zoom", zoom, 0)
        ELSE
        LET shape == Shapes(zoom)
            end_x == Min(start_x + TileSize, shape[1])
            end_y == Min(start_y + TileSize, shape[2])
        IN  IF start_x > shape[1] \/ start_y > shape[2]
            THEN TileOf("uint8", Zeros, FALSE)
            ELSE IF z < 0 \/ z > shape[3]
            THEN Raise("ValueError", "z", z, shape[3])
            ELSE IF start_x >= shape[1]
            THEN Raise("ValueError", "x", start_x, shape[1])
            ELSE IF start_y >= shape[2]
            THEN Raise("ValueError", "y", start_y, shape[2])
            ELSE TileOf(Dtypes(zoom),
                        ReadT(zoom, start_x, end_x, start_y, end_y, z), TRUE)

\* get_2d_tile with ">=" for ">" in the test of line 68
Get2dTileEdgeBlank(col, row, z, zoom) ==
    LET start_x == col * TileSize
        start_y == row * TileSize
    IN  IF zoom \notin ScaleIndex
        THEN Raise("KeyError", "zoom", zoom, 0)
        ELSE
        LET shape == Shapes(zoom)
            end_x == Min(start_x + TileSize, shape[1])
            end_y == Min(start_y + TileSize, shape[2])
        IN  IF start_x >= shape[1] \/ start_y >= shape[2]
            THEN TileOf("uint8", Zeros, FALSE)
            ELSE IF z < 0 \/ z >= shape[3]
            THEN Raise("ValueError", "z", z, shape[3])
            ELSE IF start_x >= shape[1]
            THEN Raise("ValueError", "x", start_x, shape[1])
            ELSE IF start_y >= shape[2]
            THEN Raise("ValueError", "y", start_y, shape[2])
            ELSE TileOf(Dtypes(zoom),
                        ReadT(zoom, start_x, end_x, start_y, end_y, z), TRUE)

\* get_2d_tile without "z < 0" in the test of line 79: a negative index
\* counts from the end of the axis
Get2dTileNoLowerZ(col, row, z, zoom) ==
    LET start_x == col * TileSize
        start_y == row * TileSize
    IN  IF zoom \notin ScaleIndex
        THEN Raise("KeyError", "zoom", zoom, 0)
        ELSE
        LET shape == Shapes(zoom)
            end_x == Min(start_x + TileSize, shape[1])
            end_y == Min(start_y + TileSize, shape[2])
        IN  IF start_x > shape[1] \/ start_y > shape[2]
            THEN TileOf("uint8", Zeros, FALSE)
            ELSE IF z >= shape[3]
            THEN Raise("ValueError", "z", z, shape[3])
            ELSE IF start_x >= shape[1]
            THEN Raise("ValueError", "x", start_x, shape[1])
            ELSE IF start_y >= shape[2]
            THEN Raise("ValueError", "y", start_y, shape[2])
            ELSE TileOf(Dtypes(zoom),
                        ReadT(zoom, start_x, end_x, start_y, end_y,
                              IF z < 0 THEN shape[3] + z ELSE z), TRUE)

Get2dTile(col, row, z, zoom) ==
    LET start_x == col * TileSize
        start_y == row * TileSize
    IN  IF zoom \notin ScaleIndex
        THEN Raise("KeyError", "zoom", zoom, 0)
        ELSE
        LET shape == Shapes(zoom)
            end_x == Min(start_x + TileSize, shape[1])
            end_y == Min(start_y + TileSize, shape[2])
        IN  IF start_x > shape[1] \/ start_y > shape[2]
            THEN TileOf("uint8", Zeros, FALSE)
            ELSE IF z < 0 \/ z >= shape[3]
            THEN Raise("ValueError", "z", z, shape[3])
            ELSE IF start_x >= shape[1]
            THEN Raise("ValueError", "x", start_x, shape[1])
            ELSE IF start_y >= shape[2]
            THEN Raise("ValueError", "y", start_y, shape[2])
            ELSE TileOf(Dtypes(zoom),
                        ReadT(zoom, start_x, end_x, start_y, end_y, z), TRUE)

----------------------------------------------------------------------------
(* make_my_tile *)

\* the key with row and col exchanged
MakeKeyColRow(zoom, z, row, col) == <<zoom, z, col, row>>

\* the key without the slice
MakeKeyNoZ(zoom, z, row, col) == <<zoom, 0, row, col>>

\* f"/{zoom}/{z}/{row}/{col}.png": the fields in the order of the path
MakeKey(zoom, z, row, col) == <<zoom, z, row, col>>

\* make_my_tile without its existence check
ExistsNever(c, key) == FALSE

\* the existence check made on the key of the next slice
ExistsNextSlice(c, key) == <<key[1], key[2] + 1, key[3], key[4]>> \in DOMAIN c

\* r.exists(key)
Exists(c, key) == key \in DOMAIN c

\* r.append for r.set: a second write extends the value
CacheSetAppend(c, key, value) ==
    [k \in DOMAIN c \cup {key} |->
        IF k # key THEN c[k]
        ELSE IF key \in DOMAIN c THEN c[key] \o value ELSE value]

\* r.set(key, value)
CacheSet(c, key, value) ==
    [k \in DOMAIN c \cup {key} |-> IF k = key THEN value ELSE c[k]]

\* r.get(key): the bytes, or None (the empty sequence stands for None; every
\* encoded image is non-empty)
CacheGet(c, key) == IF key \in DOMAIN c THEN c[key] ELSE <<>>

\* Image.fromarray(tile); pil_image.save(img_byte_arr, format='PNG'):
\* the PNG signature byte, bit depth, width, height, then the pixels row by
\* row.  A float32 array becomes a mode "F" image, which PNG cannot store.
EncodePng(tile) ==
    LET h == Len(tile.px)
        w == Len(tile.px[1])
        depth == IF tile.dtype = "uint8" THEN 8 ELSE 16
    IN  IF tile.dtype \notin {"uint8", "uint16"}
        THEN [kind |-> "error", exc |-> "OSError", bytes |-> <<>>]
        ELSE [kind |-> "ok", exc |-> "",
              bytes |-> <<137, depth, w, h>> \o
                        [i \in 1..(h * w) |->
                            tile.px[((i - 1) \div w) + 1][((i - 1) % w) + 1]]]


\* r.set reached whatever the encoder did
MakeMyTileWriteAlways(c, key, enc) == CacheSet(c, key, enc.bytes)

\* lines 123-129: an exception of fromarray/save leaves before r.set
MakeMyTileWrite(c, key, enc) ==
    IF enc.kind = "ok" THEN CacheSet(c, key, enc.bytes) ELSE c

\* str(e) of the exception make_my_tile re-raises (line 133)
Detail(exc, what, req, lim) ==
    [exc |-> exc, what |-> what, req |-> req, lim |-> lim]

NoDetail == Detail("", "", 0, 0)

----------------------------------------------------------------------------
(* make_tile *)

\* the loop of line 150 over range(1, n + 1)
PrefetchTasksFromOne(zoom, z, row, col, n) ==
    [j \in 1..(2 * n) |->
        LET i == ((j - 1) \div 2) + 1
        IN  IF j % 2 = 1 THEN <<zoom, z + i, row, col>>
                         ELSE <<zoom, z - i, row, col>>]

\* lines 149-152: the arguments (zoom, z, row, col) of the tasks added, in
\* the order added
PrefetchTasks(zoom, z, row, col, n) ==
    [j \in 1..(2 * n) |->
        LET i == (j - 1) \div 2
        IN  IF j % 2 = 1 THEN <<zoom, z + i, row, col>>
                         ELSE <<zoom, z - i, row, col>>]

\* return (200, body null) / raise HTTPException(status_code=404, detail=str(e))
MakeTileResponse(ok, detail) ==
    IF ok THEN [status |-> 200, detail |-> NoDetail]
          ELSE [status |-> 404, detail |-> detail]

NoResponse == [status |-> 0, detail |-> NoDetail]

----------------------------------------------------------------------------
(* get_tile (Tile Edge) *)

\* k = f"/{zoom}/{z}/{row}/{col}.png"
EdgeKey(zoom, z, row, col) == <<zoom, z, row, col>>

\* lines 28-36: the reply of make_tile is parsed and dropped; the response
\* streams io.BytesIO(img_bytes), which is empty for img_bytes = None
GetTileResponse(mr, img_bytes) ==
    [status |-> 200, media |-> "image/png", body |-> img_bytes]

NoEdgeResponse == [status |-> 0, media |-> "", body |-> <<>>]

----------------------------------------------------------------------------
(* State *)

NoTile == Raise("", "", 0, 0)

NoCall == [active |-> FALSE, sync |-> FALSE, z |-> 0, pc |-> "none",
           tile |-> NoTile]

Call(z, sync) == [active |-> TRUE, sync |-> sync, z |-> z, pc |-> "check",
                  tile |-> NoTile]

\* z of every make_my_tile call a request can lead to
ZRange == (0 - MaxPrefetch)..(MaxZ + MaxPrefetch)

\* the tile stacks requested: every (row, col) of the opened zoom levels,
\* and one stack of a zoom level that was not opened
Stacks == {<<zm, rw, cl>> : zm \in ScaleIndex, rw \in 0..MaxIdx, cl \in 0..MaxIdx}
            \cup {<<UnconfiguredZoom, 0, 0>>}

Init ==
    /\ prefetchZ \in 0..MaxPrefetch
    /\ stack \in Stacks
    /\ cache = <<>>
    /\ epc = [r \in Requests |-> "idle"]
    /\ reqz = [r \in Requests |-> 0]
    /\ eresp = [r \in Requests |-> NoEdgeResponse]
    /\ mresp = [r \in Requests |-> NoResponse]
    /\ cur = [r \in Requests |-> NoCall]
    /\ queue = [r \in Requests |-> <<>>]
    /\ bgstate = [r \in Requests |-> "none"]
    /\ sched = [r \in Requests |-> <<>>]
    /\ outc = [r \in Requests |-> <<>>]
    /\ reads = [z \in ZRange |-> 0]
    /\ writes = [z \in ZRange |-> 0]

Outcome(call, res, tile) ==
    [z |-> call.z, sync |-> call.sync, res |-> res, tile |-> tile]

\* the make_my_tile calls one request leads to: its own and its 2 * N tasks
CallsOfRequest == 1 + 2 * prefetchZ

\* get_tile reading the cache first and calling make_tile only on a miss
GetTileCacheFirst(r, z) ==
    /\ epc[r] = "idle"
    /\ \A q \in Requests : q < r => epc[q] # "idle"
    /\ r * CallsOfRequest <= MaxCalls
    /\ reqz' = [reqz EXCEPT ![r] = z]
    /\ IF EdgeKey(stack[1], z, stack[2], stack[3]) \in DOMAIN cache
       THEN /\ epc' = [epc EXCEPT ![r] = "reading"]
            /\ UNCHANGED cur
       ELSE /\ epc' = [epc EXCEPT ![r] = "calling"]
            /\ cur' = [cur EXCEPT ![r] = Call(z, TRUE)]
    /\ UNCHANGED <<prefetchZ, stack, cache, eresp, mresp, queue, bgstate,
                   sched, outc, reads, writes>>

\* get_tile, lines 26-29: the Edge sends the make_tile request and the
\* Materializer handler enters its synchronous make_my_tile call (line 145)
GetTile(r, z) ==
    /\ epc[r] = "idle"
    /\ \A q \in Requests : q < r => epc[q] # "idle"
    /\ r * CallsOfRequest <= MaxCalls
    /\ epc' = [epc EXCEPT ![r] = "calling"]
    /\ reqz' = [reqz EXCEPT ![r] = z]
    /\ cur' = [cur EXCEPT ![r] = Call(z, TRUE)]
    /\ UNCHANGED <<prefetchZ, stack, cache, eresp, mresp, queue, bgstate,
                   sched, outc, reads, writes>>

\* make_tile adding the tasks before its make_my_tile call
CompletesSchedulesFirst(r, ok, detail) ==
    LET call == cur[r]
        tasks == IF call.sync
                 THEN PrefetchTasks(stack[1], call.z, stack[2], stack[3],
                                    prefetchZ)
                 ELSE IF ok THEN queue[r] ELSE <<>>
    IN  /\ mresp' = IF call.sync
                    THEN [mresp EXCEPT ![r] = MakeTileResponse(ok, detail)]
                    ELSE mresp
        /\ epc' = IF call.sync THEN [epc EXCEPT ![r] = "reading"] ELSE epc
        /\ sched' = IF call.sync THEN [sched EXCEPT ![r] = tasks] ELSE sched
        /\ cur' = [cur EXCEPT ![r] = IF tasks = <<>> THEN NoCall
                                     ELSE Call(tasks[1][2], FALSE)]
        /\ queue' = [queue EXCEPT ![r] = IF tasks = <<>>
                                         THEN IF call.sync THEN <<>> ELSE @
                                         ELSE Tail(tasks)]
        /\ bgstate' = [bgstate EXCEPT ![r] =
                          IF tasks # <<>> THEN "running"
                          ELSE IF ~call.sync /\ ~ok THEN "aborted"
                          ELSE "finished"]

\* the exception of a task reaching the response of make_tile
CompletesTaskFailureAnswers(r, ok, detail) ==
    LET call == cur[r]
        tasks == IF call.sync
                 THEN IF ok THEN PrefetchTasks(stack[1], call.z, stack[2],
                                               stack[3], prefetchZ)
                            ELSE <<>>
                 ELSE IF ok THEN queue[r] ELSE <<>>
    IN  /\ mresp' = IF call.sync \/ ~ok
                    THEN [mresp EXCEPT ![r] = MakeTileResponse(ok, detail)]
                    ELSE mresp
        /\ epc' = IF call.sync THEN [epc EXCEPT ![r] = "reading"] ELSE epc
        /\ sched' = IF call.sync THEN [sched EXCEPT ![r] = tasks] ELSE sched
        /\ cur' = [cur EXCEPT ![r] = IF tasks = <<>> THEN NoCall
                                     ELSE Call(tasks[1][2], FALSE)]
        /\ queue' = [queue EXCEPT ![r] = IF tasks = <<>>
                                         THEN IF call.sync THEN <<>> ELSE @
                                         ELSE Tail(tasks)]
        /\ bgstate' = [bgstate EXCEPT ![r] =
                          IF tasks # <<>> THEN "running"
                          ELSE IF ~call.sync /\ ~ok THEN "aborted"
                          ELSE "finished"]

\* The handler's current make_my_tile call returns (ok) or raises.
\*   synchronous call, line 145: on an exception make_tile answers 404 and
\*     adds no task (line 147); otherwise it adds the prefetch tasks (lines
\*     149-152) and answers 200, and the tasks run after the response.
\*   background task: the tasks of one response run one after the other
\*     (BackgroundTasks awaits each in turn); an exception a task raises
\*     (line 133) leaves that loop, and the tasks behind it are not run.
Completes(r, ok, detail) ==
    LET call == cur[r]
        tasks == IF call.sync
                 THEN IF ok THEN PrefetchTasks(stack[1], call.z, stack[2],
                                               stack[3], prefetchZ)
                            ELSE <<>>
                 ELSE IF ok THEN queue[r] ELSE <<>>
    IN  /\ mresp' = IF call.sync
                    THEN [mresp EXCEPT ![r] = MakeTileResponse(ok, detail)]
                    ELSE mresp
        /\ epc' = IF call.sync THEN [epc EXCEPT ![r] = "reading"] ELSE epc
        /\ sched' = IF call.sync THEN [sched EXCEPT ![r] = tasks] ELSE sched
        /\ cur' = [cur EXCEPT ![r] = IF tasks = <<>> THEN NoCall
                                     ELSE Call(tasks[1][2], FALSE)]
        /\ queue' = [queue EXCEPT ![r] = IF tasks = <<>>
                                         THEN IF call.sync THEN <<>> ELSE @
                                         ELSE Tail(tasks)]
        /\ bgstate' = [bgstate EXCEPT ![r] =
                          IF tasks # <<>> THEN "running"
                          ELSE IF ~call.sync /\ ~ok THEN "aborted"
                          ELSE "finished"]

\* make_my_tile, lines 115-120: r.exists(key); on a miss get_2d_tile runs up
\* to the awaited read (lines 59-92)
MMTCheck(r) ==
    LET call == cur[r]
        key == MakeKey(stack[1], call.z, stack[2], stack[3])
        tile == Get2dTile(stack[3], stack[2], call.z, stack[1])
    IN  /\ call.active /\ call.pc = "check"
        /\ IF Exists(cache, key)
           THEN /\ Completes(r, TRUE, NoDetail)
                /\ outc' = [outc EXCEPT ![r] =
                               Append(@, Outcome(call, "hit", NoTile))]
                /\ UNCHANGED reads
           ELSE IF tile.kind = "error"
           THEN /\ Completes(r, FALSE,
                             Detail(tile.exc, tile.what, tile.req, tile.lim))
                /\ outc' = [outc EXCEPT ![r] =
                               Append(@, Outcome(call, "raised", tile))]
                /\ UNCHANGED reads
           ELSE /\ cur' = [cur EXCEPT ![r].pc = "store", ![r].tile = tile]
                /\ reads' = IF tile.volread
                            THEN [reads EXCEPT ![call.z] = @ + 1]
                            ELSE reads
                /\ UNCHANGED <<mresp, epc, sched, queue, bgstate, outc>>
        /\ UNCHANGED <<prefetchZ, stack, cache, reqz, eresp, writes>>

\* make_my_tile, lines 92-94 and 123-133: the read completes, the tile is
\* encoded and written to the cache
MMTStore(r) ==
    LET call == cur[r]
        key == MakeKey(stack[1], call.z, stack[2], stack[3])
        enc == EncodePng(call.tile)
    IN  /\ call.active /\ call.pc = "store"
        /\ cache' = MakeMyTileWrite(cache, key, enc)
        /\ writes' = IF cache' # cache \/ enc.kind = "ok"
                     THEN [writes EXCEPT ![call.z] = @ + 1]
                     ELSE writes
        /\ Completes(r, enc.kind = "ok", Detail(enc.exc, "codec", 0, 0))
        /\ outc' = [outc EXCEPT ![r] =
                       Append(@, Outcome(call, IF enc.kind = "ok"
                                               THEN "stored" ELSE "raised",
                                         call.tile))]
        /\ UNCHANGED <<prefetchZ, stack, reqz, eresp, reads>>

\* get_tile, lines 31-36: the reply of make_tile has arrived; read the cache
\* and respond
EdgeRead(r) ==
    /\ epc[r] = "reading"
    /\ eresp' = [eresp EXCEPT ![r] =
                    GetTileResponse(mresp[r],
                        CacheGet(cache, EdgeKey(stack[1], reqz[r], stack[2],
                                                stack[3])))]
    /\ epc' = [epc EXCEPT ![r] = "done"]
    /\ UNCHANGED <<prefetchZ, stack, cache, reqz, mresp, cur, queue, bgstate,
                   sched, outc, reads, writes>>

Next ==
    \/ \E r \in Requests, z \in 0..MaxZ : GetTile(r, z)
    \/ \E r \in Requests : MMTCheck(r)
    \/ \E r \in Requests : MMTStore(r)
    \/ \E r \in Requests : EdgeRead(r)

Spec == Init /\ [][Next]_vars

----------------------------------------------------------------------------
(* Properties *)

\* the cache key of slice z of the requested stack, as the path spells it
KeyOf(z) == <<stack[1], z, stack[2], stack[3]>>

Configured == stack[1] \in ScaleIndex

StartX == stack[3] * TileSize

StartY == stack[2] * TileSize

\* the start corner lies beyond the volume
StartOutside ==
    Configured /\ (StartX > Shapes(stack[1])[1] \/ StartY > Shapes(stack[1])[2])

ZOutOfRange(z) == Configured /\ (z < 0 \/ z >= Shapes(stack[1])[3])

\* the encoded all-zero TileSize x TileSize 8-bit tile
BlankPng == <<137, 8, TileSize, TileSize>> \o [i \in 1..(TileSize * TileSize) |-> 0]

LastOutcome(r) == outc'[r][Len(outc'[r])]

\* handler r's current make_my_tile call returns or raises in this step
Returns(r) == Len(outc'[r]) = Len(outc[r]) + 1

\* some make_my_tile call for slice z has returned successfully
Succeeded(z) ==
    \E q \in Requests : \E i \in 1..Len(outc[q]) :
        outc[q][i].z = z /\ outc[q][i].res \in {"hit", "stored"}

\* C1 as claimed: at most one make_my_tile call per key performs the Volume
\* Access read, in every interleaving of concurrent calls.
C1_AtMostOneReadPerKey == \A z \in ZRange : reads[z] <= 1

\* C1, amended: a make_my_tile call performs the Volume Access read only if
\* the key is absent from the Byte Cache at its existence check; a call that
\* checks once the key is present reads nothing.
C1_ReadOnlyWhileAbsent ==
    [][\A z \in ZRange : reads'[z] # reads[z] => KeyOf(z) \notin DOMAIN cache]_vars

\* two calls read the same slice, and a later call found the key
C1_Witness ==
    \E z \in ZRange :
        /\ reads[z] >= 2
        /\ \E r \in Requests : \E i \in 1..Len(outc[r]) :
               outc[r][i].z = z /\ outc[r][i].res = "hit"

C3_BlankNotPersisted ==
    \A r \in Requests :
        (mresp[r].status # 0 /\ StartOutside)
        => (mresp[r].status = 200 /\ KeyOf(reqz[r]) \notin DOMAIN cache)

\* C3, amended: a request whose start corner is outside the volume succeeds,
\* for any z, on an all-zero TileSize x TileSize 8-bit tile read from no
\* volume, and the encoded blank tile is in the Byte Cache under its key.
C3_BlankPersisted ==
    \A r \in Requests :
        (mresp[r].status # 0 /\ StartOutside)
        => (/\ mresp[r].status = 200
            /\ KeyOf(reqz[r]) \in DOMAIN cache
            /\ cache[KeyOf(reqz[r])] = BlankPng
            /\ outc[r][1].res = "stored"
               => (/\ outc[r][1].tile.px = [i \in 1..TileSize |-> [j \in 1..TileSize |-> 0]]
                   /\ outc[r][1].tile.dtype = "uint8"
                   /\ ~outc[r][1].tile.volread))

\* a request outside the volume was answered after storing its blank tile
C3_Witness ==
    \E r \in Requests :
        /\ StartOutside /\ mresp[r].status = 200
        /\ outc[r][1].res = "stored"
        /\ reads[reqz[r]] = 0

\* C4 as claimed: for any row and col, extraction of a slice z outside
\* [0, shape.z) fails with the out-of-bounds error naming z and shape.z.
C4_ZOutOfRangeAlwaysFails ==
    \A r \in Requests : \A i \in 1..Len(outc[r]) :
        (ZOutOfRange(outc[r][i].z) /\ outc[r][i].res # "hit")
        => (/\ outc[r][i].tile.kind = "error"
            /\ outc[r][i].tile.what = "z"
            /\ outc[r][i].tile.req = outc[r][i].z
            /\ outc[r][i].tile.lim = Shapes(stack[1])[3])

\* C4, amended: when the start corner is not beyond the volume (startX <=
\* shape.x and startY <= shape.y), every call for a slice z outside
\* [0, shape.z) fails with the out-of-bounds error naming z and shape.z.
C4_ZOutOfRangeFailsInside ==
    \A r \in Requests : \A i \in 1..Len(outc[r]) :
        (ZOutOfRange(outc[r][i].z) /\ ~StartOutside)
        => (/\ outc[r][i].res = "raised"
            /\ outc[r][i].tile.kind = "error"
            /\ outc[r][i].tile.exc = "ValueError"
            /\ outc[r][i].tile.what = "z"
            /\ outc[r][i].tile.req = outc[r][i].z
            /\ outc[r][i].tile.lim = Shapes(stack[1])[3])

\* slices above and below the volume were both asked for and refused
C4_Witness ==
    /\ ~StartOutside
    /\ \E r \in Requests : \E i \in 1..Len(outc[r]) :
           outc[r][i].z < 0 /\ outc[r][i].res = "raised"
    /\ \E r \in Requests : \E i \in 1..Len(outc[r]) :
           outc[r][i].z >= Shapes(stack[1])[3] /\ outc[r][i].res = "raised"

\* C5: when make_tile fails, get_tile answers the client with a not-found
\* class error carrying the reason, never with a success image response.
C5_FailureSurfaced ==
    \A r \in Requests :
        (epc[r] = "done" /\ mresp[r].status = 404)
        => (eresp[r].status = 404 /\ eresp[r].status # 200)

\* C6: whenever make_tile has answered success for an address, the Byte
\* Cache holds an entry under that address's key, and the Edge's read of the
\* key finds those bytes.
C6_WrittenBeforeResponse ==
    \A r \in Requests :
        mresp[r].status = 200
        => (/\ KeyOf(reqz[r]) \in DOMAIN cache
            /\ epc[r] = "done"
               => (eresp[r].body # <<>> /\ eresp[r].body = cache[KeyOf(reqz[r])]))

\* an Edge request streamed the tile its own make_tile call stored
C6_Witness ==
    \E r \in Requests :
        /\ epc[r] = "done" /\ mresp[r].status = 200
        /\ outc[r][1].res = "stored"
        /\ eresp[r].body # <<>>

\* C7: when the background run of a request's prefetch tasks is over, every
\* task the request scheduled was executed, also when one of them raised.
C7_AllPrefetchTasksRun ==
    \A r \in Requests :
        bgstate[r] \in {"finished", "aborted"}
        => Len(outc[r]) = 1 + Len(sched[r])

\* C8: a successful make_tile for (zoom, z, row, col) schedules exactly
\* 2 * N tasks, (zoom, z+i, row, col) then (zoom, z-i, row, col) for each i
\* in 0..N-1, and none for N = 0; a failed one schedules none; the tasks run
\* are make_my_tile calls on the scheduled addresses, in that order.
C8_PrefetchSchedule ==
    \A r \in Requests :
        /\ mresp[r].status = 200
           => (/\ Len(sched[r]) = 2 * prefetchZ
               /\ \A i \in 0..(prefetchZ - 1) :
                     /\ sched[r][2 * i + 1] = <<stack[1], reqz[r] + i, stack[2], stack[3]>>
                     /\ sched[r][2 * i + 2] = <<stack[1], reqz[r] - i, stack[2], stack[3]>>)
        /\ mresp[r].status # 200 => sched[r] = <<>>
        /\ \A i \in 2..Len(outc[r]) :
              ~outc[r][i].sync /\ outc[r][i].z = sched[r][i - 1][2]

\* with N = 2 all four scheduled tasks have run
C8_Witness ==
    \E r \in Requests :
        /\ prefetchZ = 2 /\ mresp[r].status = 200
        /\ Len(sched[r]) = 4 /\ Len(outc[r]) = 5

\* C9: a make_my_tile call that raises leaves the Byte Cache as it was and
\* issues no write; raised by the synchronous call, the error becomes the
\* 404 answer of make_tile carrying the reason.
C9_FailureLeavesCache ==
    [][\A r \in Requests :
          (Returns(r) /\ LastOutcome(r).res = "raised")
          => (/\ cache' = cache
              /\ writes' = writes
              /\ LastOutcome(r).sync
                 => (/\ mresp'[r].status = 404
                     /\ mresp'[r].detail.exc \in {"ValueError", "KeyError", "OSError"}
                     /\ sched'[r] = <<>>))]_vars

\* with tiles in the cache, a synchronous call and a prefetch task raised
C9_Witness ==
    /\ cache # <<>>
    /\ \E r \in Requests : mresp[r].status = 404
    /\ \E r \in Requests : \E i \in 1..Len(outc[r]) :
           outc[r][i].res = "raised" /\ ~outc[r][i].sync

\* C10 as claimed: once a key is present, no write is issued to it again.
C10_WrittenOnce == \A z \in ZRange : writes[z] <= 1

\* C10, amended: once a key is present in the Byte Cache it stays present
\* and its bytes never change; the writes that concurrent calls still issue
\* to it store the bytes it already holds.
C10_NeverChanged ==
    [][\A k \in DOMAIN cache : k \in DOMAIN cache' /\ cache'[k] = cache[k]]_vars

\* a key was written a second time
C10_Witness ==
    \E z \in ZRange : writes[z] >= 2 /\ KeyOf(z) \in DOMAIN cache

\* the address of slice z starts inside the volume, on a slice it has
InVolume(z) ==
    /\ Configured
    /\ StartX < Shapes(stack[1])[1] /\ StartY < Shapes(stack[1])[2]
    /\ 0 <= z /\ z < Shapes(stack[1])[3]

\* extent of the clipped tile along x and along y
ClipW == Min(TileSize, Shapes(stack[1])[1] - StartX)

ClipH == Min(TileSize, Shapes(stack[1])[2] - StartY)

\* C11: for an address with startX < shape.x, startY < shape.y and z in
\* [0, shape.z), get_2d_tile returns a tile of min(tileSize, shape.y - startY)
\* rows and min(tileSize, shape.x - startX) columns, unpadded, whose pixel
\* (row, col) is the voxel (startX + col, startY + row, z).
C11_ClippedTransposedTile ==
    \A r \in Requests : \A i \in 1..Len(outc[r]) :
        (InVolume(outc[r][i].z) /\ outc[r][i].res # "hit")
        => (/\ outc[r][i].tile.kind = "tile"
            /\ outc[r][i].tile.volread
            /\ Len(outc[r][i].tile.px) = ClipH
            /\ \A rw \in 1..ClipH :
                  /\ Len(outc[r][i].tile.px[rw]) = ClipW
                  /\ \A cl \in 1..ClipW :
                        outc[r][i].tile.px[rw][cl] =
                            Volume(stack[1], StartX + cl - 1, StartY + rw - 1,
                                   outc[r][i].z))

\* a tile clipped in x only (fewer columns than rows) was extracted
C11_Witness ==
    \E r \in Requests : \E i \in 1..Len(outc[r]) :
        /\ InVolume(outc[r][i].z) /\ outc[r][i].res = "stored"
        /\ ClipW < TileSize /\ ClipH = TileSize
        /\ Len(outc[r][i].tile.px) = TileSize

\* the bytes the address of slice z encodes to
ExpectedBytes(z) ==
    IF StartOutside THEN BlankPng
    ELSE <<137, 8, ClipW, ClipH>> \o
         [i \in 1..(ClipH * ClipW) |->
             Volume(stack[1], StartX + ((i - 1) % ClipW),
                    StartY + ((i - 1) \div ClipW), z)]

\* the address of slice z can be materialised
Servable(z) ==
    \/ StartOutside
    \/ InVolume(z) /\ Dtypes(stack[1]) \in {"uint8", "uint16"}

\* C12: in every interleaving the value under a present key is the encoding
\* of the tile its address yields, whatever number of writes the key had,
\* and a request succeeds exactly when its address can be materialised:
\* concurrent requests for one address all succeed or all fail.
C12_DeterministicContent ==
    /\ \A k \in DOMAIN cache : k = KeyOf(k[2]) /\ cache[k] = ExpectedBytes(k[2])
    /\ \A r \in Requests :
          mresp[r].status # 0 => (mresp[r].status = 200 <=> Servable(reqz[r]))
    /\ \A r, q \in Requests :
          (mresp[r].status # 0 /\ mresp[q].status # 0 /\ reqz[r] = reqz[q])
          => mresp[r].status = mresp[q].status

\* two requests for one in-volume address both read, both wrote and both
\* succeeded
C12_Witness ==
    \E r, q \in Requests :
        /\ r # q /\ reqz[r] = reqz[q] /\ InVolume(reqz[r])
        /\ mresp[r].status = 200 /\ mresp[q].status = 200
        /\ outc[r][1].res = "stored" /\ outc[q][1].res = "stored"

\* the start corner lies exactly on the volume edge
ExactEdge ==
    /\ Configured
    /\ \/ StartX = Shapes(stack[1])[1] /\ StartY <= Shapes(stack[1])[2]
       \/ StartY = Shapes(stack[1])[2] /\ StartX <= Shapes(stack[1])[1]

\* C13: when the start corner lies exactly on the volume edge, every call,
\* for any z, raises the out-of-bounds error (of z when z is out of range,
\* else of x, else of y) with the offending coordinate and its limit, and
\* nothing is read or written.
C13_ExactEdgeRaises ==
    ExactEdge
    => (/\ cache = <<>>
        /\ \A z \in ZRange : writes[z] = 0 /\ reads[z] = 0
        /\ \A r \in Requests : \A i \in 1..Len(outc[r]) :
              /\ outc[r][i].res = "raised"
              /\ outc[r][i].tile.exc = "ValueError"
              /\ outc[r][i].tile.what =
                    (IF ZOutOfRange(outc[r][i].z) THEN "z"
                     ELSE IF StartX = Shapes(stack[1])[1] THEN "x" ELSE "y")
              /\ outc[r][i].tile.req =
                    (IF ZOutOfRange(outc[r][i].z) THEN outc[r][i].z
                     ELSE IF StartX = Shapes(stack[1])[1] THEN StartX ELSE StartY)
              /\ outc[r][i].tile.lim =
                    (IF ZOutOfRange(outc[r][i].z) THEN Shapes(stack[1])[3]
                     ELSE IF StartX = Shapes(stack[1])[1] THEN Shapes(stack[1])[1]
                     ELSE Shapes(stack[1])[2]))

\* on the edge in y only, a request for a slice of the volume was refused
\* for y and one for a slice beyond it for z
C13_Witness ==
    /\ ExactEdge /\ StartX < Shapes(stack[1])[1]
    /\ \E r \in Requests : mresp[r].status = 404 /\ mresp[r].detail.what = "y"
    /\ \E r \in Requests : mresp[r].status = 404 /\ mresp[r].detail.what = "z"

\* request r has prefetch tasks: scheduled, waiting or running
HasTasks(r) ==
    sched[r] # <<>> \/ queue[r] # <<>> \/ (cur[r].active /\ ~cur[r].sync)

\* C14: a request whose synchronous make_my_tile call failed has no prefetch
\* task, and a request has prefetch tasks only once that call has returned
\* successfully.
C14_PrefetchOnlyAfterSuccess ==
    \A r \in Requests :
        /\ mresp[r].status = 404
           => (~HasTasks(r) /\ Len(outc[r]) = 1 /\ ~cur[r].active)
        /\ HasTasks(r)
           => (/\ Len(outc[r]) >= 1
               /\ outc[r][1].sync
               /\ outc[r][1].res \in {"hit", "stored"}
               /\ mresp[r].status = 200)

\* with prefetch configured, a request failed and ended without a task
C14_Witness ==
    \E r \in Requests :
        /\ prefetchZ >= 1 /\ mresp[r].status = 404 /\ epc[r] = "done"
        /\ outc[r][1].res = "raised" /\ sched[r] = <<>>

\* C15: the status make_tile answers is that of the synchronous
\* make_my_tile call, is set before any prefetch task of the request is
\* started, and neither it nor the Edge's response changes afterwards,
\* whatever the prefetch tasks do.
C15_StatusFixedBeforePrefetch ==
    [][\A r \in Requests :
          /\ mresp[r].status # 0 => mresp'[r] = mresp[r]
          /\ epc[r] = "done" => (epc'[r] = "done" /\ eresp'[r] = eresp[r])
          /\ mresp'[r].status # 0
             => (/\ Len(outc'[r]) >= 1
                 /\ mresp'[r].status = 200
                    <=> outc'[r][1].res \in {"hit", "stored"})
          /\ (cur'[r].active /\ ~cur'[r].sync) => mresp'[r].status = 200
          /\ Len(outc'[r]) >= 2 => mresp'[r].status = 200]_vars

\* a prefetch task raised and ended the background run of a request that
\* was answered 200 and whose tile the Edge streamed
C15_Witness ==
    \E r \in Requests :
        /\ bgstate[r] = "aborted" /\ mresp[r].status = 200
        /\ epc[r] = "done" /\ eresp[r].body # <<>>

\* C16: the first two tasks of a request address the requested tile itself
\* and return at the existence check; the other 2 * (N - 1) tasks address
\* other slices; with N = 1 prefetch calls no slice but the requested ones,
\* and the reads and writes of a slice are at most one per request for it.
C16_FirstPairIsSelf ==
    /\ \A r \in Requests :
          /\ Len(sched[r]) >= 2
             => (sched[r][1] = KeyOf(reqz[r]) /\ sched[r][2] = KeyOf(reqz[r]))
          /\ \A j \in 3..Len(sched[r]) : sched[r][j][2] # reqz[r]
          /\ sched[r] # <<>>
             => Cardinality({j \in 1..Len(sched[r]) : sched[r][j][2] # reqz[r]})
                    = 2 * (prefetchZ - 1)
          /\ \A i \in 2..3 :
                i <= Len(outc[r])
                => (outc[r][i].z = reqz[r] /\ outc[r][i].res = "hit")
          /\ prefetchZ = 1
             => \A i \in 1..Len(outc[r]) : outc[r][i].z = reqz[r]
    /\ prefetchZ = 1
       => \A z \in ZRange :
             LET asked == {r \in Requests : epc[r] # "idle" /\ reqz[r] = z}
             IN  /\ KeyOf(z) \in DOMAIN cache => asked # {}
                 /\ reads[z] <= Cardinality(asked)
                 /\ writes[z] <= Cardinality(asked)

\* with N = 1 a request stored its tile, both its tasks ran, and the cache
\* holds that one slice
C16_Witness ==
    \E r \in Requests :
        /\ prefetchZ = 1 /\ bgstate[r] = "finished"
        /\ Len(outc[r]) = 3 /\ outc[r][1].res = "stored"
        /\ DOMAIN cache = {KeyOf(reqz[r])}

\* C17: an Edge request that has reached its cache read made exactly one
\* make_tile call, and a make_tile call that found its key in the cache
\* scheduled the same 2 * N tasks as one that missed.
C17_HitStillPrefetches ==
    \A r \in Requests :
        /\ epc[r] \in {"reading", "done"}
           => (/\ mresp[r].status # 0
               /\ Len(outc[r]) >= 1
               /\ {i \in 1..Len(outc[r]) : outc[r][i].sync} = {1})
        /\ (Len(outc[r]) >= 1 /\ outc[r][1].res = "hit")
           => (/\ mresp[r].status = 200
               /\ Len(sched[r]) = 2 * prefetchZ
               /\ \A j \in 1..Len(sched[r]) :
                     sched[r][j] =
                        KeyOf(IF j % 2 = 1 THEN reqz[r] + ((j - 1) \div 2)
                                           ELSE reqz[r] - ((j - 1) \div 2)))

\* a request whose key was already cached was answered and, with N = 2,
\* scheduled four tasks
C17_Witness ==
    \E r \in Requests :
        /\ prefetchZ = 2 /\ epc[r] = "done"
        /\ outc[r][1].res = "hit" /\ Len(sched[r]) = 4

\* C18: when the start corner is not beyond the volume (startX <= shape.x
\* and startY <= shape.y), every key in the Byte Cache has z in [0, shape.z)
\* and a start corner inside the volume.
C18_CachedKeysInVolume ==
    (Configured /\ ~StartOutside)
    => \A k \in DOMAIN cache :
          /\ k[1] = stack[1] /\ k[3] = stack[2] /\ k[4] = stack[3]
          /\ 0 <= k[2] /\ k[2] < Shapes(k[1])[3]
          /\ k[4] * TileSize < Shapes(k[1])[1]
          /\ k[3] * TileSize < Shapes(k[1])[2]

\* tiles are cached, and prefetch went below slice 0 and above the last
\* slice
C18_Witness ==
    /\ Configured /\ ~StartOutside /\ cache # <<>>
    /\ \E r \in Requests : \E i \in 1..Len(outc[r]) :
           ~outc[r][i].sync /\ outc[r][i].z < 0 /\ outc[r][i].res = "raised"
    /\ \E r \in Requests : \E i \in 1..Len(outc[r]) :
           ~outc[r][i].sync /\ outc[r][i].z >= Shapes(stack[1])[3]
           /\ outc[r][i].res = "raised"

============================================================================
